---- MODULE Spec2Model ----
(***************************************************************************)
(* Model of src/app.py: the report parser (grid lines, beam table, load    *)
(* cases, ground stress) and the load-geometry assembly of                 *)
(* create_loads_plot.                                                      *)
(*                                                                         *)
(* A report line is a sequence of whitespace-separated tokens plus a flag  *)
(* for leading whitespace.  Every regular expression and every substring   *)
(* test of the source is evaluated on that structure.  Python floats are   *)
(* modelled as binary floating-point numbers with MantBits significant     *)
(* bits on a grid of 2^-FracBits, rounded to nearest, ties to even.        *)
(***************************************************************************)
EXTENDS Integers, Sequences, FiniteSets, TLC

VARIABLES
    lines,                    \* the decoded input, a sequence of lines
    pc,                       \* the loop the script is in
    idx,                      \* index of the line the running loop reads next
    err,                      \* the exception that ended the script at pc, or "none"
    stramienlijnen,           \* dict naam -> <<p1, p2>>
    balken,                   \* list of <<begin, eind>>
    load_cases,               \* dict bg -> dict beam -> list of loads
    ground_stress_data,       \* dict coord_key -> sample
    in_stramien,              \* flag of the grid-line loop
    in_balken,                \* flag of the beam loop
    in_loads_section,         \* parse_load_cases local
    in_displacement_section,  \* parse_ground_stress local
    current_bg,               \* parse_load_cases local
    current_beam,             \* parse_load_cases local
    lookup,                   \* parse_ground_stress: beam_num, the endpoint codes and
                              \* their coordinates at the last data line looked up
    plots                     \* dict bg -> stations drawn by create_loads_plot(bg)

vars == <<lines, pc, idx, err, stramienlijnen, balken, load_cases,
          ground_stress_data, in_stramien, in_balken, in_loads_section,
          in_displacement_section, current_bg, current_beam, lookup, plots>>

----------------------------------------------------------------------------
(* Bounds of the model *)

MantBits == 5
FracBits == 10
MaxBody == 3

----------------------------------------------------------------------------
(* Floating point: a value is an integer number of units of 2^-FracBits.    *)

Pow2(n) == 2^n
Grid == Pow2(FracBits)
Abs(x) == IF x < 0 THEN -x ELSE x

RECURSIVE StepFor(_, _, _)
StepFor(a, b, s) ==
    IF a < Pow2(MantBits) * s * b THEN s ELSE StepFor(a, b, 2 * s)

\* nearest representable value to a/b (a >= 0, b > 0), ties to even
\* mantissa m, twice the remainder r2 against the divisor c, step s
RoundMant(m, r2, c, s) ==
    IF r2 > c \/ (r2 = c /\ m % 2 = 1) THEN (m + 1) * s ELSE m * s
RoundStep(a, b, s) == RoundMant(a \div (b * s), 2 * (a % (b * s)), b * s, s)
RoundPos(a, b) == RoundStep(a, b, StepFor(a, b, 1))

FRound(a, b) ==
    IF b < 0 THEN (IF a > 0 THEN -RoundPos(a, -b) ELSE RoundPos(-a, -b))
    ELSE IF a < 0 THEN -RoundPos(-a, b) ELSE RoundPos(a, b)

Representable(x) == FRound(x, 1) = x

FAdd(x, y) == FRound(x + y, 1)
FSub(x, y) == FRound(x - y, 1)
FMul(x, y) == FRound(x * y, Grid)
FDiv(x, y) == FRound(x * Grid, y)
FromInt(k) == FRound(k * Grid, 1)
\* int(x): truncation toward zero
Trunc(x) == IF x >= 0 THEN x \div Grid ELSE -((-x) \div Grid)
Max(a, b) == IF a >= b THEN a ELSE b

----------------------------------------------------------------------------
(* Tokens and lines.  A token is [k, w, n, d]:                              *)
(*   "word"   the text w                                                    *)
(*   "int"    the digits of n                      ("3")                    *)
(*   "dec"    n / 10^d written with a dot          ("1.5")                  *)
(*   "neg"    -(n / 10^d)                          ("-50.0")                *)
(*   "baddot" digits and dots, not a number        ("1.2.3", ".")           *)
(*   "badneg" digits, dots and '-', not a number   ("-")                    *)
(*   "code"   w;n                                  ("A;1")                  *)
(*   "ref"    n:d                                  ("1:1")                  *)
(*   "bg"     B.G:n                                ("B.G:1")                *)

Tok(k, w, n, d) == [k |-> k, w |-> w, n |-> n, d |-> d]
W(w) == Tok("word", w, 0, 0)
I(n) == Tok("int", "", n, 0)
D(n, d) == Tok("dec", "", n, d)
Neg(n, d) == Tok("neg", "", n, d)
BadDot == Tok("baddot", "1.2.3", 0, 0)
BadNeg == Tok("badneg", "-", 0, 0)
Code(w, n) == Tok("code", w, n, 0)
Ref(n, d) == Tok("ref", "", n, d)
BG(n) == Tok("bg", "", n, 0)

Line(ind, toks) == [indent |-> ind, toks |-> toks]
L(toks) == Line(FALSE, toks)
Blank == L(<< >>)

\* the marker texts a word contains as a substring
SubstrOf(w) ==
    CASE w = "STRAMIENLIJNEN" -> {"STRAMIENLIJNEN"}
      [] w = "BALKEN" -> {"BALKEN"}
      [] w = "FUNDERINGSBALKEN" -> {"BALKEN"}
      [] w = "vervolg" -> {"vervolg"}
      [] w = "Vervolg" -> {"Vervolg"}
      [] w = "DOORSNEDESECTOREN" -> {"DOORSNEDESECTOREN"}
      [] w = "BELASTINGCOMBINATIES" -> {"BELASTINGCOMBINATIES"}
      [] w = "REACTIES" -> {"REACTIES"}
      [] w = "TUSSENPUNTEN" -> {"TUSSENPUNTEN"}
      [] w = "VERPLAATSINGEN" -> {"VERPLAATSINGEN"}
      [] w = "Fundamentele" -> {"Fundamentele"}
      [] w = "combinatie" -> {"combinatie"}
      [] OTHER -> {}

\* marker in line, for a marker of one word
Has(line, m) ==
    \E j \in 1..Len(line.toks) :
        line.toks[j].k = "word" /\ m \in SubstrOf(line.toks[j].w)

\* "a b" in line, for a marker of two words: a ends one token, b starts the next
Has2(line, a, b) ==
    \E j \in 1..(Len(line.toks) - 1) :
        /\ line.toks[j].k = "word" /\ a \in SubstrOf(line.toks[j].w)
        /\ line.toks[j + 1].k = "word" /\ line.toks[j + 1].w = b

\* "vervolg" in line.lower()
HasLower(line, m) ==
    \E j \in 1..Len(line.toks) :
        /\ line.toks[j].k = "word"
        /\ (m \in SubstrOf(line.toks[j].w) \/ (m = "vervolg" /\ "Vervolg" \in SubstrOf(line.toks[j].w)))

\* line.strip() is not empty
Strip(line) == Len(line.toks) > 0

\* the token matches \d+ / [\d.]+ / [-\d.]+ as a whole
IsDigits(t) == t.k = "int"
IsDotNum(t) == t.k \in {"int", "dec", "baddot"}
IsSignNum(t) == t.k \in {"int", "dec", "neg", "baddot", "badneg"}

\* the longest prefix of the token that matches [\d.]+, as a token, or NoTok:
\* the last group of a pattern is not followed by \s+, so it may end inside a token
NoTok == Tok("none", "", 0, 0)
DotPrefix(t) ==
    IF IsDotNum(t) THEN t
    ELSE IF t.k = "ref" THEN I(t.n)
    ELSE NoTok

Pow10(d) == 10^d

\* float(text): ok and the value, or not ok when Python raises ValueError
Val(v) == [ok |-> TRUE, v |-> v]
NoVal == [ok |-> FALSE, v |-> 0]
Float(t) ==
    CASE t.k = "int" -> Val(FRound(t.n * Grid, 1))
      [] t.k = "dec" -> Val(FRound(t.n * Grid, Pow10(t.d)))
      [] t.k = "neg" -> Val(FRound(-(t.n * Grid), Pow10(t.d)))
      [] OTHER -> NoVal

----------------------------------------------------------------------------
(* Python dicts keep insertion order: a dict is a sequence of [k, v].       *)

Keys(dict) == {dict[j].k : j \in 1..Len(dict)}
Get(dict, k) == dict[CHOOSE j \in 1..Len(dict) : dict[j].k = k].v
Put(dict, k, v) ==
    IF k \in Keys(dict)
    THEN [j \in 1..Len(dict) |-> IF dict[j].k = k THEN [k |-> k, v |-> v] ELSE dict[j]]
    ELSE Append(dict, [k |-> k, v |-> v])

----------------------------------------------------------------------------
(* The regular expressions of the source, on tokens.                        *)

\* r"\s*\d+\s+(\S+)\s+([\d.]+)\s+([\d.]+)\s+([\d.]+)\s+([\d.]+)"
GridMatch(line) ==
    /\ Len(line.toks) >= 6
    /\ IsDigits(line.toks[1])
    /\ \A j \in 3..5 : IsDotNum(line.toks[j])
    /\ DotPrefix(line.toks[6]) # NoTok

\* r"\s*\d+\s+\S+\s+(\S+)\s+(\S+)"
BeamMatch(line) ==
    /\ Len(line.toks) >= 4
    /\ IsDigits(line.toks[1])

\* rf"Balk\s+{beam_num}:\d+\s+([\d.]+)\s+([\d.]+)\s+([\d.]+)"
SectorMatch(line, beam_num) ==
    /\ ~line.indent
    /\ Len(line.toks) >= 5
    /\ line.toks[1] = W("Balk")
    /\ line.toks[2].k = "ref" /\ line.toks[2].n = beam_num
    /\ IsDotNum(line.toks[3]) /\ IsDotNum(line.toks[4])
    /\ DotPrefix(line.toks[5]) # NoTok

\* r"VELDBELASTINGEN\s+B\.G:(\d+)"
BgMatch(line) ==
    /\ ~line.indent
    /\ Len(line.toks) >= 2
    /\ line.toks[1] = W("VELDBELASTINGEN")
    /\ line.toks[2].k = "bg"

\* r"Balk\s+(\d+):"
BalkMatch(line) ==
    /\ ~line.indent
    /\ Len(line.toks) >= 2
    /\ line.toks[1] = W("Balk")
    /\ line.toks[2].k = "ref"

\* r"Balk\s+\d+:\d+\s+\d+\s+1:q-last\s+([-\d.]+)\s+([-\d.]+)\s+([\d.]+)\s+([\d.]+)"
QMatch(line) ==
    /\ BalkMatch(line)
    /\ Len(line.toks) >= 8
    /\ IsDigits(line.toks[3])
    /\ line.toks[4] = W("1:q-last")
    /\ IsSignNum(line.toks[5]) /\ IsSignNum(line.toks[6])
    /\ IsDotNum(line.toks[7])
    /\ DotPrefix(line.toks[8]) # NoTok

\* r"Balk\s+\d+:\d+\s+\d+\s+8:Puntlast\s+([-\d.]+)\s+([\d.]+)"
PMatch(line) ==
    /\ BalkMatch(line)
    /\ Len(line.toks) >= 6
    /\ IsDigits(line.toks[3])
    /\ line.toks[4] = W("8:Puntlast")
    /\ IsSignNum(line.toks[5])
    /\ DotPrefix(line.toks[6]) # NoTok

\* r"\s*(\d+)\s+(\d+)\s+([\d.]+)\s+([-\d.]+)\s+([-\d.]+)\s+([-\d.]+)\s+([-\d.]+)\s+([\d.]+)"
StressMatch(line) ==
    /\ Len(line.toks) >= 8
    /\ IsDigits(line.toks[1]) /\ IsDigits(line.toks[2])
    /\ IsDotNum(line.toks[3])
    /\ \A j \in 4..7 : IsSignNum(line.toks[j])
    /\ DotPrefix(line.toks[8]) # NoTok

----------------------------------------------------------------------------
(* Helper functions of the source.  A result is [st, x, y, z, e]: st is     *)
(* "ok" (a value), "none" (Python None) or "raise" (exception e).           *)

Ok(x, y, z) == [st |-> "ok", x |-> x, y |-> y, z |-> z, e |-> "none"]
Raise(e) == [st |-> "raise", x |-> 0, y |-> 0, z |-> 0, e |-> e]
RNone == [st |-> "none", x |-> 0, y |-> 0, z |-> 0, e |-> "none"]

ErrFloat == "ValueError: could not convert string to float"
ErrUnpack == "ValueError: not enough values to unpack"
ErrStramien == "ValueError: Stramienlijn niet gevonden"
ErrIndex == "IndexError: list index out of range"
ErrZeroDiv == "ZeroDivisionError: float division by zero"

\* a variant that counts the stations from 0
StationFromZero(p, q, i) == FAdd(p, FDiv(FMul(FromInt(i), FSub(q, p)), FromInt(3)))
\* p + (i - 1) * (q - p) / 3
Station(p, q, i) == FAdd(p, FDiv(FMul(FromInt(i - 1), FSub(q, p)), FromInt(3)))

\* lines 87-90: the station i of the grid line from p1 to p2
StationXY(p1, p2, i) == Ok(Station(p1[1], p2[1], i), Station(p1[2], p2[2], i), 0)

get_beam_coord(reg, code) ==
    IF code.k # "code" THEN Raise(ErrUnpack)
    ELSE IF W(code.w) \notin Keys(reg) THEN Raise(ErrStramien)
    ELSE StationXY(Get(reg, W(code.w))[1], Get(reg, W(code.w))[2], code.n)

\* lines 111-116: as StationXY, with z = 0.0
StationXYZ(p1, p2, i) == Ok(Station(p1[1], p2[1], i), Station(p1[2], p2[2], i), 0)

get_coord_3d(reg, code) ==
    IF code.k # "code" THEN Raise(ErrUnpack)
    ELSE IF W(code.w) \notin Keys(reg) THEN Raise(ErrStramien)
    ELSE StationXYZ(Get(reg, W(code.w))[1], Get(reg, W(code.w))[2], code.n)

\* the lines get_beam_length tries its pattern on: non-blank, after a
\* DOORSNEDESECTOREN line, not containing DOORSNEDESECTOREN
InSections(ls, j) ==
    /\ ~Has(ls[j], "DOORSNEDESECTOREN")
    /\ Strip(ls[j])
    /\ \E h \in 1..(j - 1) : Has(ls[h], "DOORSNEDESECTOREN")

\* get_beam_length: [st, x]: x is the length; "none" stands for the int 0
LengthOf(f) == IF f.ok THEN Ok(f.v, 0, 0) ELSE Raise(ErrFloat)
FirstOf(hits) == CHOOSE m \in hits : \A o \in hits : m <= o
FirstLength(ls, hits) ==
    IF hits = {} THEN RNone ELSE LengthOf(Float(DotPrefix(ls[FirstOf(hits)].toks[5])))
get_beam_length(ls, beam_num) ==
    FirstLength(ls, {j \in 1..Len(ls) : InSections(ls, j) /\ SectorMatch(ls[j], beam_num)})

\* balken[beam_num - 1], Python indexing: index -1 is the last element
BalkenAt(blk, beam_num) ==
    IF beam_num >= 1 /\ beam_num <= Len(blk) THEN Ok(beam_num, 0, 0)
    ELSE IF beam_num = 0 /\ Len(blk) >= 1 THEN Ok(Len(blk), 0, 0)
    ELSE Raise(ErrIndex)

\* start + ratio * (end - start)
Interp(a, b, ratio) == FAdd(a, FMul(ratio, FSub(b, a)))

\* lines 131-134
InterpXY(a, b, ratio) == Ok(Interp(a.x, b.x, ratio), Interp(a.y, b.y, ratio), 0)

\* lines 123-134, with the values of the three calls
AlongBeam(start_coord, end_coord, beam_length, position) ==
    IF start_coord.st = "raise" THEN start_coord
    ELSE IF end_coord.st = "raise" THEN end_coord
    ELSE IF beam_length.st = "raise" THEN beam_length
    ELSE IF beam_length.st = "none" \/ beam_length.x <= 0 THEN RNone
    ELSE InterpXY(start_coord, end_coord, FDiv(position, beam_length.x))

\* lines 122-134, with the index of the beam in balken
AtBeam(ls, reg, blk, beam_num, position, at) ==
    IF at.st = "raise" THEN at
    ELSE AlongBeam(get_beam_coord(reg, blk[at.x][1]), get_beam_coord(reg, blk[at.x][2]),
                   get_beam_length(ls, beam_num), position)

get_beam_3d_coords(ls, reg, blk, beam_num, position) ==
    IF beam_num > Len(blk) THEN RNone
    ELSE AtBeam(ls, reg, blk, beam_num, position, BalkenAt(blk, beam_num))

----------------------------------------------------------------------------
(* Load-geometry assembly: create_loads_plot.                               *)

PointLoad(force, position) ==
    [type |-> "point", q1 |-> 0, q2 |-> 0, start |-> 0, length |-> 0,
     force |-> force, position |-> position]
DistLoad(q1, q2, start, length) ==
    [type |-> "distributed", q1 |-> q1, q2 |-> q2, start |-> start, length |-> length,
     force |-> 0, position |-> 0]

\* a station drawn for a load: where it is on the beam, its anchor, its magnitude
\* nr: the index of the load in its beam's list
Anchor(type, beam, nr, pos, c, mag) ==
    [type |-> type, beam |-> beam, nr |-> nr, pos |-> pos,
     x |-> c.x, y |-> c.y, z |-> c.z, mag |-> mag]

Half == Grid \div 2
MinArrows == 3

\* max(3, int(load['length'] / 0.5))
n_arrows(load) == Max(MinArrows, Trunc(FDiv(load.length, Half)))

\* np.linspace(start, stop, num)[k], k = 0 .. num - 1
LinStep(start, div, delta, step, k) ==
    IF step = 0 THEN FAdd(FMul(FDiv(FromInt(k), div), delta), start)
    ELSE FAdd(FMul(FromInt(k), step), start)
LinDelta(start, div, delta, k) == LinStep(start, div, delta, FDiv(delta, div), k)
Linspace(start, stop, num, k) ==
    IF k = num - 1 THEN stop
    ELSE LinDelta(start, FromInt(num - 1), FSub(stop, start), k)

\* a variant without the guard on the length
UnguardedRatio(load, pos) ==
    IF load.length = 0 THEN NoVal ELSE Val(FDiv(FSub(pos, load.start), load.length))
\* (pos - start_pos) / load['length'] if load['length'] > 0 else 0
LoadRatio(load, pos) ==
    IF load.length > 0 THEN Val(FDiv(FSub(pos, load.start), load.length)) ELSE Val(0)

\* abs(q1) + ratio * (abs(q2) - abs(q1))
q_local(load, ratio) ==
    FAdd(Abs(load.q1), FMul(ratio, FSub(Abs(load.q2), Abs(load.q1))))

\* the positions create_loads_plot asks an anchor for, for one load
LinPositions(load, n) ==
    [k \in 1..n |-> Linspace(load.start, FAdd(load.start, load.length), n, k - 1)]
Positions(load) ==
    IF load.type = "point" THEN << load.position >> ELSE LinPositions(load, n_arrows(load))

\* the steps of the loop body for one beam of the load case, in order:
\* the get_beam_length call, then one step per position of each load
PosJobs(beam_num, load, nr, positions) ==
    [k \in 1..Len(positions) |->
        [kind |-> "pos", beam |-> beam_num, load |-> load, nr |-> nr, pos |-> positions[k]]]

RECURSIVE LoadJobs(_, _, _)
LoadJobs(beam_num, loads, j) ==
    IF j > Len(loads) THEN << >>
    ELSE PosJobs(beam_num, loads[j], j, Positions(loads[j])) \o LoadJobs(beam_num, loads, j + 1)

RECURSIVE BeamJobs(_, _, _)
BeamJobs(blk, beams, j) ==
    IF j > Len(beams) THEN << >>
    ELSE (IF beams[j].k > Len(blk) THEN << >>
          ELSE << [kind |-> "length", beam |-> beams[j].k, load |-> PointLoad(0, 0),
                    nr |-> 0, pos |-> 0] >>
               \o LoadJobs(beams[j].k, beams[j].v, 1))
         \o BeamJobs(blk, beams, j + 1)

\* one step of the loop body: [st, e, anchor]; "none" when it draws nothing
LengthResult(job, bl) ==
    [st |-> IF bl.st = "raise" THEN "raise" ELSE "none", e |-> bl.e,
     anchor |-> Anchor("none", job.beam, 0, 0, RNone, 0)]
\* a division by zero in the ratio raises once the anchor is there
PosResult(job, coords, mag) ==
    IF coords.st = "ok" /\ ~mag.ok
    THEN [st |-> "raise", e |-> ErrZeroDiv, anchor |-> Anchor("none", job.beam, 0, 0, RNone, 0)]
    ELSE [st |-> coords.st, e |-> coords.e,
          anchor |-> Anchor(job.load.type, job.beam, job.nr, job.pos, coords, mag.v)]
QLocal(load, ratio) == IF ratio.ok THEN Val(q_local(load, ratio.v)) ELSE NoVal
Magnitude(load, pos) ==
    IF load.type = "point" THEN Val(load.force) ELSE QLocal(load, LoadRatio(load, pos))
JobResult(ls, reg, blk, job) ==
    IF job.kind = "length" THEN LengthResult(job, get_beam_length(ls, job.beam))
    ELSE PosResult(job, get_beam_3d_coords(ls, reg, blk, job.beam, job.pos),
                   Magnitude(job.load, job.pos))

IsDrawn(r) == r.st = "ok"
IsRaise(r) == r.st = "raise"
Anchors(done) == [j \in 1..Len(done) |-> done[j].anchor]

\* the index of the first step that raises, or 0
FirstRaise(res) ==
    IF \A j \in 1..Len(res) : ~IsRaise(res[j]) THEN 0
    ELSE CHOOSE j \in 1..Len(res) : IsRaise(res[j]) /\ \A o \in 1..(j - 1) : ~IsRaise(res[o])

Collect(res, stop) ==
    IF stop = 0 THEN [st |-> "ok", e |-> "none", stations |-> Anchors(SelectSeq(res, IsDrawn))]
    ELSE [st |-> "raise", e |-> res[stop].e,
          stations |-> Anchors(SelectSeq(SubSeq(res, 1, stop - 1), IsDrawn))]

Results(res) == Collect(res, FirstRaise(res))

\* runs the steps in order; the first exception ends the function
RunJobs(ls, reg, blk, jobs) ==
    Results([j \in 1..Len(jobs) |-> JobResult(ls, reg, blk, jobs[j])])

\* the beam lines of the figure: a beam whose endpoints do not resolve is skipped
TraceOf(j, a, b) ==
    IF a.st = "ok" /\ b.st = "ok" THEN << [beam |-> j, a |-> a, b |-> b] >> ELSE << >>

RECURSIVE BeamTraces(_, _, _)
BeamTraces(reg, blk, j) ==
    IF j > Len(blk) THEN << >>
    ELSE TraceOf(j, get_coord_3d(reg, blk[j][1]), get_coord_3d(reg, blk[j][2]))
         \o BeamTraces(reg, blk, j + 1)

Figure(run, beams) ==
    [st |-> run.st, e |-> run.e, fig |-> [beams |-> beams, stations |-> run.stations]]

create_loads_plot(ls, reg, blk, cases, bg_number) ==
    Figure(RunJobs(ls, reg, blk, BeamJobs(blk, Get(cases, bg_number), 1)),
           BeamTraces(reg, blk, 1))

\* sorted(keys)
Sorted(S) == [j \in 1..Cardinality(S) |-> CHOOSE x \in S : Cardinality({y \in S : y < x}) = j - 1]

----------------------------------------------------------------------------
(* The script: four loops over the lines, then one create_loads_plot call   *)
(* per load case, in ascending case id.                                     *)

\* the loop goes on with the next line, or ends and the script moves on
Continue(here, there) ==
    IF idx < Len(lines) THEN pc' = here /\ idx' = idx + 1
    ELSE pc' = there /\ idx' = 1

Break(there) == pc' = there /\ idx' = 1

\* an exception nothing catches ends the script where it is
Crash(e) == pc' = pc /\ err' = e /\ idx' = idx

\* the script is in the loop `here` and no exception has ended it
Running(here) == pc = here /\ err = "none"

AfterParse == IF Len(load_cases) = 0 THEN "done" ELSE "ui"

IsStramienStart(line) == Has(line, "STRAMIENLIJNEN")
IsStramienStop(line) == Has(line, "BALKEN")

\* lines 48-62: one iteration of the grid-line loop
GridStep ==
    /\ Running("stramien")
    /\ LET line == lines[idx]
           x1 == Float(line.toks[3])
           y1 == Float(line.toks[4])
           x2 == Float(line.toks[5])
           y2 == Float(DotPrefix(line.toks[6]))
       IN  IF IsStramienStart(line)
           THEN in_stramien' = TRUE /\ Continue("stramien", "balken")
                /\ UNCHANGED <<stramienlijnen, err>>
           ELSE IF IsStramienStop(line)
           THEN Break("balken") /\ UNCHANGED <<in_stramien, stramienlijnen, err>>
           ELSE IF in_stramien /\ GridMatch(line)
           THEN IF x1.ok /\ y1.ok /\ x2.ok /\ y2.ok
                THEN /\ stramienlijnen' = Put(stramienlijnen, line.toks[2],
                                              << <<x1.v, y1.v>>, <<x2.v, y2.v>> >>)
                     /\ Continue("stramien", "balken")
                     /\ UNCHANGED <<in_stramien, err>>
                ELSE Crash(ErrFloat) /\ UNCHANGED <<in_stramien, stramienlijnen>>
           ELSE Continue("stramien", "balken") /\ UNCHANGED <<in_stramien, stramienlijnen, err>>
    /\ UNCHANGED <<lines, balken, load_cases, ground_stress_data, in_balken,
                   in_loads_section, in_displacement_section, current_bg, current_beam,
                   lookup, plots>>

IsBalkenStart(line) == Has(line, "BALKEN") /\ ~HasLower(line, "vervolg")
IsBalkenStop(line) == Has2(line, "BALKEN", "vervolg") \/ Has(line, "DOORSNEDESECTOREN")

\* lines 66-77: one iteration of the beam loop
BeamStep ==
    /\ Running("balken")
    /\ LET line == lines[idx]
       IN  IF IsBalkenStart(line)
           THEN in_balken' = TRUE /\ Continue("balken", "loads") /\ UNCHANGED balken
           ELSE IF IsBalkenStop(line)
           THEN Break("loads") /\ UNCHANGED <<in_balken, balken>>
           ELSE IF in_balken /\ Strip(line) /\ BeamMatch(line)
           THEN /\ balken' = Append(balken, <<line.toks[3], line.toks[4]>>)
                /\ Continue("balken", "loads")
                /\ UNCHANGED in_balken
           ELSE Continue("balken", "loads") /\ UNCHANGED <<in_balken, balken>>
    /\ UNCHANGED <<lines, err, stramienlijnen, load_cases, ground_stress_data, in_stramien,
                   in_loads_section, in_displacement_section, current_bg, current_beam,
                   lookup, plots>>

\* a variant that misses the REACTIES marker
ClosesOnCombiOnly(line) == Has(line, "BELASTINGCOMBINATIES")
IsLoadsStop(line) == Has(line, "BELASTINGCOMBINATIES") \/ Has(line, "REACTIES")

\* the load a line of the section appends, as [st, load]: "none" when it appends nothing
LineLoad(line) ==
    LET q1 == Float(line.toks[5])
        q2 == Float(line.toks[6])
        distance == Float(line.toks[7])
        length == Float(DotPrefix(line.toks[8]))
        force == Float(line.toks[5])
        position == Float(DotPrefix(line.toks[6]))
    IN  IF QMatch(line)
        THEN IF q1.ok /\ q2.ok /\ distance.ok /\ length.ok
             THEN [st |-> "ok", load |-> DistLoad(q1.v, q2.v, distance.v, length.v)]
             ELSE [st |-> "raise", load |-> PointLoad(0, 0)]
        ELSE IF PMatch(line)
        THEN IF force.ok /\ position.ok
             THEN [st |-> "ok", load |-> PointLoad(force.v, position.v)]
             ELSE [st |-> "raise", load |-> PointLoad(0, 0)]
        ELSE [st |-> "none", load |-> PointLoad(0, 0)]

\* a variant that empties the list of the beam at every 'Balk n:' line
WithBeamReset(cases, bg, beam) == Put(cases, bg, Put(Get(cases, bg), beam, << >>))
\* load_cases with current_beam's list created in case bg when it is not there
WithBeam(cases, bg, beam) ==
    IF beam \in Keys(Get(cases, bg)) THEN cases
    ELSE Put(cases, bg, Put(Get(cases, bg), beam, << >>))

\* lines 142-184: one iteration of the loop of parse_load_cases
LoadStep ==
    /\ Running("loads")
    /\ LET line == lines[idx]
       IN  IF BgMatch(line)
           THEN /\ current_bg' = line.toks[2].n
                /\ load_cases' = IF line.toks[2].n \in Keys(load_cases) THEN load_cases
                                 ELSE Put(load_cases, line.toks[2].n, << >>)
                /\ in_loads_section' = TRUE
                /\ Continue("loads", "stress")
                /\ UNCHANGED <<current_beam, err>>
           ELSE IF in_loads_section /\ IsLoadsStop(line)
           THEN /\ in_loads_section' = FALSE
                /\ Continue("loads", "stress")
                /\ UNCHANGED <<current_bg, current_beam, load_cases, err>>
           ELSE IF in_loads_section /\ Strip(line)
           THEN LET beam == IF BalkMatch(line) THEN line.toks[2].n ELSE current_beam
                    cases == IF BalkMatch(line) THEN WithBeam(load_cases, current_bg, beam)
                             ELSE load_cases
                    ld == LineLoad(line)
                IN  /\ current_beam' = beam
                    /\ UNCHANGED <<current_bg, in_loads_section>>
                    /\ IF ld.st = "none" \/ beam = 0 \/ beam = -1
                       THEN load_cases' = cases /\ Continue("loads", "stress") /\ UNCHANGED err
                       ELSE IF ld.st = "raise"
                       THEN load_cases' = cases /\ Crash(ErrFloat)
                       ELSE /\ load_cases' = Put(cases, current_bg,
                                                 Put(Get(cases, current_bg), beam,
                                                     Append(Get(Get(cases, current_bg), beam), ld.load)))
                            /\ Continue("loads", "stress")
                            /\ UNCHANGED err
           ELSE /\ Continue("loads", "stress")
                /\ UNCHANGED <<current_bg, current_beam, in_loads_section, load_cases, err>>
    /\ UNCHANGED <<lines, stramienlijnen, balken, ground_stress_data, in_stramien, in_balken,
                   in_displacement_section, lookup, plots>>

\* a variant that takes either marker for the header
EitherMarker(line) ==
    Has2(line, "TUSSENPUNTEN", "VERPLAATSINGEN") \/ Has2(line, "Fundamentele", "combinatie")
IsStressHeader(line) ==
    Has2(line, "TUSSENPUNTEN", "VERPLAATSINGEN") /\ Has2(line, "Fundamentele", "combinatie")
IsStressStop(line) == Has(line, "REACTIES") \/ Has(line, "BELASTINGCOMBINATIES")

\* f"{position:.3f}": the position in thousandths, rounded half to even
Fmt3(v) ==
    LET a == v * 1000
        q == a \div Grid
        r == a - q * Grid
    IN  IF 2 * r > Grid \/ (2 * r = Grid /\ q % 2 = 1) THEN q + 1 ELSE q

\* f"Beam{beam_num}_Pos{position:.3f}"
coord_key(beam_num, position) == <<beam_num, Fmt3(position)>>

\* beam_num <= len(balken)
BeamKnown(blk, beam_num) == beam_num <= Len(blk)

\* lines 216-219
SampleXY(a, b, ratio) == Ok(Interp(a.x, b.x, ratio), Interp(a.y, b.y, ratio), 0)

\* lines 210-228, the try block, with the values of the three calls: the sample
\* of a data line, as [st, x, y]: "none" when the line yields no sample
TrySample(start_coord, end_coord, beam_length, position) ==
    IF start_coord.st = "raise" \/ end_coord.st = "raise" \/ beam_length.st = "raise"
    THEN RNone
    ELSE IF beam_length.st = "ok" /\ beam_length.x > 0
    THEN SampleXY(start_coord, end_coord, FDiv(position, beam_length.x))
    ELSE RNone

Sample(ls, reg, blk, beam_num, at, position) ==
    TrySample(get_beam_coord(reg, blk[at][1]), get_beam_coord(reg, blk[at][2]),
              get_beam_length(ls, beam_num), position)

\* lines 221-226
PutSample(data, beam_num, position, ground_stress, smp) ==
    IF smp.st = "ok"
    THEN Put(data, coord_key(beam_num, position),
             [x |-> smp.x, y |-> smp.y, z |-> ground_stress,
              beam |-> beam_num, position |-> position, stress |-> ground_stress])
    ELSE data

\* lines 208-212: the endpoint codes taken from the table for the ordinal n and
\* what get_beam_coord returns for them; the second call is not made when the
\* first one raises
NoLookup ==
    [beam |-> -1, start_code |-> NoTok, end_code |-> NoTok, start_coord |-> RNone,
     end_coord |-> RNone]
LookupOf(n, codes, start_coord, end_coord) ==
    [beam |-> n, start_code |-> codes[1], end_code |-> codes[2], start_coord |-> start_coord,
     end_coord |-> IF start_coord.st = "raise" THEN RNone ELSE end_coord]
Lookup(reg, n, codes) ==
    LookupOf(n, codes, get_beam_coord(reg, codes[1]), get_beam_coord(reg, codes[2]))

\* lines 192-228: one iteration of the loop of parse_ground_stress
StressStep ==
    /\ Running("stress")
    /\ LET line == lines[idx]
           beam_num == line.toks[1].n
           position == Float(line.toks[3])
           ground_stress == Float(DotPrefix(line.toks[8]))
           at == BalkenAt(balken, beam_num)
       IN  IF IsStressHeader(line)
           THEN /\ in_displacement_section' = TRUE
                /\ Continue("stress", AfterParse)
                /\ UNCHANGED <<ground_stress_data, lookup, err>>
           ELSE IF in_displacement_section /\ IsStressStop(line)
           THEN /\ Break(AfterParse)
                /\ UNCHANGED <<in_displacement_section, ground_stress_data, lookup, err>>
           ELSE IF in_displacement_section /\ Strip(line) /\ StressMatch(line)
           THEN /\ UNCHANGED in_displacement_section
                /\ IF ~position.ok \/ ~ground_stress.ok
                   THEN Crash(ErrFloat) /\ UNCHANGED <<ground_stress_data, lookup>>
                   ELSE IF ~BeamKnown(balken, beam_num)
                   THEN Continue("stress", AfterParse)
                        /\ UNCHANGED <<ground_stress_data, lookup, err>>
                   ELSE IF at.st = "raise"
                   THEN Crash(at.e) /\ UNCHANGED <<ground_stress_data, lookup>>
                   ELSE /\ lookup' = Lookup(stramienlijnen, beam_num, balken[at.x])
                        /\ ground_stress_data' =
                             PutSample(ground_stress_data, beam_num, position.v, ground_stress.v,
                                       Sample(lines, stramienlijnen, balken, beam_num, at.x,
                                              position.v))
                        /\ Continue("stress", AfterParse)
                        /\ UNCHANGED err
           ELSE /\ Continue("stress", AfterParse)
                /\ UNCHANGED <<in_displacement_section, ground_stress_data, lookup, err>>
    /\ UNCHANGED <<lines, stramienlijnen, balken, load_cases, in_stramien, in_balken,
                   in_loads_section, current_bg, current_beam, plots>>

\* lines 609-628: the tab of one load case calls create_loads_plot(bg_num)
Drawn(order, fig) ==
    IF fig.st = "raise"
    THEN Crash(fig.e) /\ UNCHANGED plots
    ELSE /\ plots' = Put(plots, order[idx], fig.fig)
         /\ IF idx < Len(order) THEN pc' = "ui" /\ idx' = idx + 1
            ELSE pc' = "done" /\ idx' = 1
         /\ UNCHANGED err

Draw(order) ==
    Drawn(order, create_loads_plot(lines, stramienlijnen, balken, load_cases, order[idx]))

PlotStep ==
    /\ Running("ui")
    /\ Draw(Sorted(Keys(load_cases)))
    /\ UNCHANGED <<lines, stramienlijnen, balken, load_cases, ground_stress_data, in_stramien,
                   in_balken, in_loads_section, in_displacement_section, current_bg,
                   current_beam, lookup>>

Next == GridStep \/ BeamStep \/ LoadStep \/ StressStep \/ PlotStep

\* the state when the first loop starts, on the input ls
Start(ls) ==
    /\ lines = ls
    /\ pc = "stramien"
    /\ idx = 1
    /\ err = "none"
    /\ stramienlijnen = << >>
    /\ balken = << >>
    /\ load_cases = << >>
    /\ ground_stress_data = << >>
    /\ in_stramien = FALSE
    /\ in_balken = FALSE
    /\ in_loads_section = FALSE
    /\ in_displacement_section = FALSE
    /\ current_bg = -1
    /\ current_beam = -1
    /\ lookup = NoLookup
    /\ plots = << >>

----------------------------------------------------------------------------
(* Report lines used as inputs.                                             *)

hStramien == L(<< W("STRAMIENLIJNEN") >>)
hBalken == L(<< W("BALKEN") >>)
hVervolg == L(<< W("BALKEN"), W("vervolg") >>)
hSectoren == L(<< W("DOORSNEDESECTOREN") >>)
hLoads(n) == L(<< W("VELDBELASTINGEN"), BG(n) >>)
hCombi == L(<< W("BELASTINGCOMBINATIES") >>)
hReacties == L(<< W("REACTIES") >>)
hStress == L(<< W("TUSSENPUNTEN"), W("VERPLAATSINGEN"), W("Fundamentele"), W("combinatie") >>)
hVerplaatsingen == L(<< W("TUSSENPUNTEN"), W("VERPLAATSINGEN") >>)
hFundamentele == L(<< W("Fundamentele"), W("combinatie") >>)

\* "<nr> <naam> <x1> <y1> <x2> <y2>"
GridLine(naam, x1, y1, x2, y2) == L(<< I(1), W(naam), x1, y1, x2, y2 >>)
\* "<nr> X <begin> <eind>"
BeamLine(nr, begin, eind) == L(<< I(nr), W("X"), begin, eind >>)
\* "Balk <n>:1 0 0 <length>"
SectorLine(n, length) == L(<< W("Balk"), Ref(n, 1), I(0), I(0), length >>)
\* "Balk <n>:1 2 8:Puntlast <force> <position>"
PointLine(n, force, position) ==
    L(<< W("Balk"), Ref(n, 1), I(2), W("8:Puntlast"), force, position >>)
\* "Balk <n>:1 2 1:q-last <q1> <q2> <start> <length>"
QLine(n, q1, q2, start, length) ==
    L(<< W("Balk"), Ref(n, 1), I(2), W("1:q-last"), q1, q2, start, length >>)
\* "<beam> 1 <position> 0 0 0 0 <groundStress>"
StressLine(n, position, stress) == L(<< I(n), I(1), position, I(0), I(0), I(0), I(0), stress >>)

\* all sequences over S of length at most n
RECURSIVE SeqsUpTo(_, _)
SeqsUpTo(S, n) ==
    IF n = 0 THEN {<< >>}
    ELSE LET shorter == SeqsUpTo(S, n - 1)
         IN  shorter \cup {Append(q, x) : q \in {t \in shorter : Len(t) = n - 1}, x \in S}

\* the geometry most inputs share: grid line A from (0,0) to (3,0); beam 1 on A and
\* 3 long, beam 2 ending on the unregistered grid line B, beam 3 on A; beams 2 and
\* 3 have no cross-section line
GridBlock == << hStramien, GridLine("A", I(0), I(0), I(3), I(0)) >>
BeamBlock == << hBalken, BeamLine(7, Code("A", 1), Code("A", 4)),
                BeamLine(7, Code("A", 4), Code("B", 1)),
                BeamLine(2, Code("A", 4), Code("A", 1)) >>
SectorBlock == << hSectoren, SectorLine(1, D(30, 1)) >>
StressBlock == << hStress, StressLine(1, D(15, 1), I(5)) >>

\* the lines a load-case section is filled with
LoadBody ==
    { Blank, hReacties, hLoads(2),
      PointLine(1, Neg(500, 1), D(15, 1)),
      PointLine(2, I(4), I(1)),
      PointLine(3, I(4), I(1)),
      PointLine(9, I(4), I(1)),
      PointLine(1, BadNeg, I(1)),
      QLine(1, I(10), I(20), I(0), I(2)) }

LoadInputs ==
    { GridBlock \o BeamBlock \o SectorBlock \o << hLoads(1) >> \o body \o StressBlock :
        body \in SeqsUpTo(LoadBody, MaxBody) }

Init == \E ls \in LoadInputs : Start(ls)
Spec == Init /\ [][Next]_vars

\* inputs of the ground-stress pass: the beam table as above or empty, a
\* cross-section line for beam 0 too, one load case, then the stress lines
NoBeamBlock == << hBalken >>
SectorBlock0 == << hSectoren, SectorLine(1, D(30, 1)), SectorLine(0, D(30, 1)) >>
CaseBlock == << hLoads(1), PointLine(1, Neg(500, 1), D(15, 1)), hCombi >>

StressBody ==
    { hStress, hVerplaatsingen, hReacties,
      StressLine(1, D(15, 1), I(5)),
      StressLine(0, I(1), I(5)),
      StressLine(2, I(1), I(5)),
      StressLine(3, I(1), I(5)),
      StressLine(9, I(1), I(5)),
      StressLine(1, BadDot, I(5)) }

StressInputs ==
    { GridBlock \o beams \o SectorBlock0 \o CaseBlock \o body :
        beams \in {BeamBlock, NoBeamBlock}, body \in SeqsUpTo(StressBody, MaxBody) \ {<< >>} }

InitStress == \E ls \in StressInputs : Start(ls)
SpecStress == InitStress /\ [][Next]_vars

\* inputs of the resolver: grid line A with endpoints that are or are not
\* exact thirds apart, beams on stations 0 to 5 of A and on the unregistered
\* B, a cross-section line, a load and a stress line for each beam
ResolveGrids ==
    { << hStramien, GridLine("A", x1, I(0), x2, y2) >> :
        x1 \in {I(0), D(25, 2)}, x2 \in {I(3), D(275, 2)}, y2 \in {I(0), I(4)} }
ResolveBeams ==
    { BeamLine(1, Code("A", 1), Code("A", 4)),
      BeamLine(1, Code("A", 0), Code("A", 5)),
      BeamLine(1, Code("A", 2), Code("B", 1)),
      BeamLine(1, Code("B", 1), Code("A", 3)) }
ResolveTail ==
    << hSectoren, SectorLine(1, D(30, 1)), SectorLine(2, D(30, 1)), SectorLine(3, D(30, 1)),
       hLoads(1), PointLine(1, Neg(500, 1), D(15, 1)), hCombi,
       hStress, StressLine(1, I(0), I(5)), StressLine(2, I(1), I(5)), StressLine(3, I(1), I(5)) >>
ResolveInputs ==
    { grid \o << hBalken >> \o body \o ResolveTail :
        grid \in ResolveGrids, body \in SeqsUpTo(ResolveBeams, MaxBody) }

InitResolve == \E ls \in ResolveInputs : Start(ls)
SpecResolve == InitResolve /\ [][Next]_vars

\* inputs of the load assembly: distributed loads of either sign, of length 0
\* and longer, on a beam with and without a length
AssembleBody ==
    { hLoads(2),
      PointLine(1, Neg(500, 1), D(15, 1)),
      QLine(1, I(10), I(20), I(0), I(2)),
      QLine(1, Neg(10, 0), I(20), I(0), I(2)),
      QLine(1, I(10), Neg(20, 0), I(1), I(0)),
      QLine(1, Neg(10, 0), Neg(20, 0), D(5, 1), I(3)),
      QLine(3, I(10), I(20), I(0), I(0)) }
AssembleInputs ==
    { GridBlock \o BeamBlock \o SectorBlock \o << hLoads(1) >> \o body \o StressBlock :
        body \in SeqsUpTo(AssembleBody, MaxBody) \ {<< >>} }

InitAssemble == \E ls \in AssembleInputs : Start(ls)
SpecAssemble == InitAssemble /\ [][Next]_vars

\* inputs of the section scans: title lines ahead of STRAMIENLIJNEN that
\* contain a stop marker, and cross-section-shaped lines after the load cases
hTitle == L(<< W("FUNDERINGSBALKEN") >>)
TitleLines == { hTitle, hSectoren, hVervolg }
LateLines == { Blank, SectorLine(3, D(50, 1)), SectorLine(1, D(70, 1)) }
LateStress == << hStress, StressLine(1, D(15, 1), I(5)), StressLine(3, I(1), I(5)) >>
SectionInputs ==
    { pre \o GridBlock \o BeamBlock \o SectorBlock \o CaseBlock \o post \o LateStress :
        pre \in SeqsUpTo(TitleLines, MaxBody - 1), post \in SeqsUpTo(LateLines, MaxBody - 1) }

InitSections == \E ls \in SectionInputs : Start(ls)
SpecSections == InitSections /\ [][Next]_vars

\* inputs of the sample collection: signed loads, then stress lines of beam 1
\* whose positions are equal, differ in the fourth decimal only, or differ
\* more, and one with a negative stress
SignedCase ==
    << hLoads(1), PointLine(1, Neg(500, 1), D(15, 1)),
       QLine(1, Neg(10, 0), Neg(20, 0), I(0), I(2)), hCombi >>
SampleBody ==
    { StressLine(1, D(205, 4), I(5)),
      StressLine(1, D(215, 4), I(6)),
      StressLine(1, D(205, 4), I(7)),
      StressLine(1, D(15, 1), I(5)),
      StressLine(1, D(150, 2), I(8)),
      StressLine(1, I(1), Neg(50, 1)) }
SampleInputs ==
    { GridBlock \o BeamBlock \o SectorBlock \o SignedCase \o << hStress >> \o body :
        body \in SeqsUpTo(SampleBody, MaxBody) \ {<< >>} }

InitSamples == \E ls \in SampleInputs : Start(ls)
SpecSamples == InitSamples /\ [][Next]_vars

----------------------------------------------------------------------------
(* Claims C1-C7: the four passes and what they keep.                        *)

Parsing == pc \in {"stramien", "balken", "loads", "stress"}
AfterLoads == pc \in {"stress", "ui", "done"}
AfterStress == pc \in {"ui", "done"}

\* the samples of the ground-stress collection
Samples == {ground_stress_data[j].v : j \in 1..Len(ground_stress_data)}

\* C1: for every input the whole parse (grid-line, beam-table, load-case and
\* ground-stress pass) runs to completion without raising, also on a numeric
\* field such as '1.2.3' and on a stress line naming beam 0 with an empty table
C1_ParseNeverRaises == Parsing => err = "none"

\* the lines the beam section accepts: after the first BALKEN header, before
\* the first 'BALKEN vervolg' or DOORSNEDESECTOREN line
BeamHeaders(ls) == {j \in 1..Len(ls) : Has(ls[j], "BALKEN") /\ ~HasLower(ls[j], "vervolg")}
BeamEnds(ls) ==
    {j \in 1..Len(ls) : /\ ~(Has(ls[j], "BALKEN") /\ ~HasLower(ls[j], "vervolg"))
                        /\ (Has2(ls[j], "BALKEN", "vervolg") \/ Has(ls[j], "DOORSNEDESECTOREN"))}
Between(ls, headers, ends) ==
    {j \in 1..Len(ls) : /\ j \notin headers
                        /\ \E h \in headers : h < j
                        /\ \A e \in ends : j < e
                        /\ Strip(ls[j]) /\ BeamMatch(ls[j])}
AcceptedBeamLines(ls) == Between(ls, BeamHeaders(ls), BeamEnds(ls))
InOrder(S, k) == CHOOSE x \in S : Cardinality({y \in S : y < x}) = k - 1
EndsIn(ls, S) ==
    [k \in 1..Cardinality(S) |-> <<ls[InOrder(S, k)].toks[3], ls[InOrder(S, k)].toks[4]>>]

\* C2: the k-th line accepted in the beam section is beam k, whatever its
\* leading number, and every later lookup by ordinal n uses the n-th line
C2_OrdinalsByPosition ==
    /\ AfterLoads \/ pc = "loads" => balken = EndsIn(lines, AcceptedBeamLines(lines))
    /\ lookup # NoLookup => /\ lookup.beam \in 1..Len(balken)
                            /\ <<lookup.start_code, lookup.end_code>> = balken[lookup.beam]

\* a line that closes a load-case section: a marker line, or also a blank one
IsMarkerLine(line) ==
    ~BgMatch(line) /\ (Has(line, "BELASTINGCOMBINATIES") \/ Has(line, "REACTIES"))
IsBlankLine(line) == ~Strip(line)
\* line i comes after a line that closed a section, with no header since
ClosedByMarker(ls, i) ==
    \E c \in 1..(i - 1) : /\ IsMarkerLine(ls[c])
                          /\ \E h \in 1..(c - 1) : BgMatch(ls[h])
                          /\ \A j \in (c + 1)..i : ~BgMatch(ls[j])
ClosedByBlank(ls, i) ==
    \E c \in 1..(i - 1) : /\ IsBlankLine(ls[c])
                          /\ \E h \in 1..(c - 1) : BgMatch(ls[h])
                          /\ \A j \in (c + 1)..i : ~BgMatch(ls[j])

OpenUnder(ls, h, i) ==
    /\ h < i /\ BgMatch(ls[h])
    /\ \A j \in (h + 1)..i : ~BgMatch(ls[j]) /\ ~IsMarkerLine(ls[j])
\* line i is a point-load line of an in-range beam
InRangePoint(ls, blk, i) ==
    /\ PMatch(ls[i]) /\ ls[i].toks[2].n \in 1..Len(blk)
    /\ Float(ls[i].toks[5]).ok /\ Float(DotPrefix(ls[i].toks[6])).ok
LoadsOf(cases, bg, beam) ==
    IF bg \in Keys(cases) /\ beam \in Keys(Get(cases, bg))
    THEN {Get(Get(cases, bg), beam)[j] : j \in 1..Len(Get(Get(cases, bg), beam))}
    ELSE {}

\* C4: after the parse the load-case map holds no beam key above the number of
\* parsed beams, and every point load of an in-range beam is still there
C4_OutOfRangeDropped ==
    AfterLoads =>
        /\ \A j \in 1..Len(load_cases) : \A b \in Keys(load_cases[j].v) : b <= Len(balken)
        /\ \A h, i \in 1..Len(lines) :
              OpenUnder(lines, h, i) /\ InRangePoint(lines, balken, i)
              => PointLoad(Float(lines[i].toks[5]).v, Float(DotPrefix(lines[i].toks[6])).v)
                   \in LoadsOf(load_cases, lines[h].toks[2].n, lines[i].toks[2].n)

\* both endpoint codes of beam b name registered grid lines
Registered(reg, blk, b) ==
    /\ blk[b][1].k = "code" /\ W(blk[b][1].w) \in Keys(reg)
    /\ blk[b][2].k = "code" /\ W(blk[b][2].w) \in Keys(reg)

\* C5: a beam endpoint on an unregistered grid line drops the records of that
\* beam, samples and load anchors alike, and no error escapes
C5_UnknownGridLineDropped ==
    /\ err # ErrStramien
    /\ \A s \in Samples : s.beam \in 1..Len(balken) => Registered(stramienlijnen, balken, s.beam)

\* the header and the terminator of the ground-stress subsection
IsBothMarkers(line) ==
    Has2(line, "TUSSENPUNTEN", "VERPLAATSINGEN") /\ Has2(line, "Fundamentele", "combinatie")
IsTerminator(line) ==
    ~IsBothMarkers(line) /\ (Has(line, "REACTIES") \/ Has(line, "BELASTINGCOMBINATIES"))
\* line i lies after a header and before the next terminator
InStressSection(ls, i) ==
    /\ ~IsBothMarkers(ls[i]) /\ ~IsTerminator(ls[i])
    /\ \E h \in 1..(i - 1) : IsBothMarkers(ls[h]) /\ \A j \in (h + 1)..(i - 1) : ~IsTerminator(ls[j])
\* line i lies in the first activated section
InFirstStressSection(ls, i) ==
    /\ ~IsBothMarkers(ls[i]) /\ ~IsTerminator(ls[i])
    /\ \E h \in 1..(i - 1) : /\ IsBothMarkers(ls[h])
                             /\ \A j \in 1..(h - 1) : ~IsBothMarkers(ls[j])
                             /\ \A j \in (h + 1)..(i - 1) : ~IsTerminator(ls[j])
\* the data line i reads as the sample s
YieldsSample(ls, i, s) ==
    /\ Strip(ls[i]) /\ StressMatch(ls[i])
    /\ ls[i].toks[1].n = s.beam
    /\ Float(ls[i].toks[3]) = Val(s.position)
    /\ Float(DotPrefix(ls[i].toks[8])) = Val(s.stress)
\* the data line i names a beam of the table with registered endpoints and a
\* positive length, and its numbers read
Samplable(ls, reg, blk, i) ==
    /\ Strip(ls[i]) /\ StressMatch(ls[i])
    /\ Float(ls[i].toks[3]).ok /\ Float(DotPrefix(ls[i].toks[8])).ok
    /\ ls[i].toks[1].n \in 1..Len(blk)
    /\ Registered(reg, blk, ls[i].toks[1].n)
    /\ get_beam_length(ls, ls[i].toks[1].n).st = "ok"
    /\ get_beam_length(ls, ls[i].toks[1].n).x > 0
\* the ground-stress pass has gone past line i
StressRead(i) == AfterStress \/ (pc = "stress" /\ i < idx)

\* C6: every sample comes from a line after a header with both markers and
\* before the next REACTIES or BELASTINGCOMBINATIES line; a terminator before
\* any header does not end the scan: every good data line of the first
\* activated section has its sample once the pass is past it
C6_SamplesOnlyInSection ==
    /\ \A s \in Samples : \E i \in 1..Len(lines) : YieldsSample(lines, i, s) /\ InStressSection(lines, i)
    /\ \A i \in 1..Len(lines) :
          (StressRead(i) /\ InFirstStressSection(lines, i)
           /\ Samplable(lines, stramienlijnen, balken, i))
          => \E s \in Samples : YieldsSample(lines, i, s)

\* a sample was taken although a terminator precedes the header, and a data
\* line outside the section was passed over
C6_Witness ==
    /\ AfterStress
    /\ Samples # {}
    /\ \E t, h \in 1..Len(lines) : t < h /\ IsTerminator(lines[t]) /\ IsBothMarkers(lines[h])
    /\ \E i \in 1..Len(lines) : StressMatch(lines[i]) /\ ~InStressSection(lines, i)

\* the beam has no cross-section line, or a length that is not positive
NoLength(bl) == bl.st = "none" \/ (bl.st = "ok" /\ bl.x <= 0)
\* the beam of the assembly step that raised
RaisedAt(jobs, stop) == IF stop = 0 THEN 0 ELSE jobs[stop].beam
RaisedBeam(ls, reg, blk, jobs) ==
    RaisedAt(jobs, FirstRaise([j \in 1..Len(jobs) |-> JobResult(ls, reg, blk, jobs[j])]))
\* the stations of all figures drawn so far
Stations == UNION {{plots[j].v.stations[k] : k \in 1..Len(plots[j].v.stations)} : j \in 1..Len(plots)}

\* C7: no sample and no load anchor comes from a beam whose length is unknown
\* or not positive, and dropping such a record does not stop the later ones
C7_NoLengthDropped ==
    /\ \A s \in Samples : ~NoLength(get_beam_length(lines, s.beam))
    /\ \A a \in Stations : ~NoLength(get_beam_length(lines, a.beam))
    /\ (pc = "ui" /\ err # "none")
       => ~NoLength(get_beam_length(lines,
             RaisedBeam(lines, stramienlijnen, balken,
                        BeamJobs(balken, Get(load_cases, Sorted(Keys(load_cases))[idx]), 1))))

----------------------------------------------------------------------------
(* Claims C8-C10: the resolver and the distributed loads.                   *)

\* p + (i - 1) * (q - p) / 3, each operation rounded as the floats are
ThirdsFrom(p, q, i) == FAdd(p, FDiv(FMul(FromInt(i - 1), FSub(q, p)), FromInt(3)))
\* q - p and 3 * (q - p) are floats: no operation of the formula rounds at station 4
ExactSpan(p, q) == Representable(q - p) /\ Representable(3 * (q - p))
AlwaysExact(p, q) == TRUE

\* r is what the resolver owes for station i of the grid line from p1 to p2;
\* Exact4 says when station 4 is p2 itself
OnLine(p1, p2, i, r, Exact4(_, _)) ==
    /\ r.st = "ok"
    /\ r.x = ThirdsFrom(p1[1], p2[1], i) /\ r.y = ThirdsFrom(p1[2], p2[2], i) /\ r.z = 0
    /\ i = 1 => r.x = p1[1] /\ r.y = p1[2]
    /\ i = 4 /\ Exact4(p1[1], p2[1]) => r.x = p2[1]
    /\ i = 4 /\ Exact4(p1[2], p2[2]) => r.y = p2[2]
\* r is what the resolver owes for the code: an error for an absent name
Resolved(reg, code, r, Exact4(_, _)) ==
    IF W(code.w) \in Keys(reg)
    THEN OnLine(Get(reg, W(code.w))[1], Get(reg, W(code.w))[2], code.n, r, Exact4)
    ELSE r.st = "raise" /\ r.e = ErrStramien

\* the beam lines of all figures drawn so far
Traces == UNION {{plots[j].v.beams[k] : k \in 1..Len(plots[j].v.beams)} : j \in 1..Len(plots)}

ResolverOwes(Exact4(_, _)) ==
    /\ lookup # NoLookup =>
          /\ Resolved(stramienlijnen, lookup.start_code, lookup.start_coord, Exact4)
          /\ lookup.start_coord.st = "ok" =>
                Resolved(stramienlijnen, lookup.end_code, lookup.end_coord, Exact4)
    /\ \A t \in Traces :
          /\ Resolved(stramienlijnen, balken[t.beam][1], t.a, Exact4)
          /\ Resolved(stramienlijnen, balken[t.beam][2], t.b, Exact4)

\* C8 as stated: the resolver returns p1 + (i-1)*(p2-p1)/3 in x and y, station
\* 1 is exactly p1 and station 4 exactly p2, other indices extrapolate, an
\* absent name is an error, the 3-D variant has the same x and y and z = 0
C8_StationFourIsP2 == ResolverOwes(AlwaysExact)

\* C8 amended: as above with the formula evaluated in floating point; station 4
\* is exactly p2 when p2 - p1 and 3 * (p2 - p1) are floats, else within rounding
C8_ThirdsInFloats == ResolverOwes(ExactSpan)

\* stations 0 and 5 were resolved for a stress line, and a figure shows a beam
\* ending on station 4 of a grid line whose span is not exact
C8_Witness ==
    /\ lookup # NoLookup
    /\ lookup.start_code = Code("A", 0) /\ lookup.end_code = Code("A", 5)
    /\ lookup.end_coord.st = "ok"
    /\ \E t \in Traces :
          /\ balken[t.beam][2] = Code("A", 4)
          /\ ~ExactSpan(Get(stramienlijnen, W("A"))[1][1], Get(stramienlijnen, W("A"))[2][1])

\* the stations a figure shows for the distributed load nr of beam b
StationsOf(fig, b, nr) ==
    {k \in 1..Len(fig.stations) :
        /\ fig.stations[k].type = "distributed"
        /\ fig.stations[k].beam = b /\ fig.stations[k].nr = nr}
\* every distributed load of length 0 on a beam whose anchor resolves shows
\* `count` stations in the figure of its case, all at its start
ZeroLengthShows(bg, fig, b, loads, count) ==
    \A nr \in 1..Len(loads) :
        (/\ loads[nr].type = "distributed" /\ loads[nr].length = 0
         /\ get_beam_3d_coords(lines, stramienlijnen, balken, b, loads[nr].start).st = "ok")
        => /\ Cardinality(StationsOf(fig, b, nr)) = count
           /\ \A k \in StationsOf(fig, b, nr) : fig.stations[k].pos = loads[nr].start
ZeroLengthStations(count) ==
    /\ err # ErrZeroDiv
    /\ \A j \in 1..Len(plots) : \A b \in Keys(Get(load_cases, plots[j].k)) :
          b <= Len(balken)
          => ZeroLengthShows(plots[j].k, plots[j].v, b, Get(Get(load_cases, plots[j].k), b), count)

SignedIntensity(load, pos) ==
    FAdd(load.q1, FMul(FDiv(FSub(pos, load.start), load.length), FSub(load.q2, load.q1)))
Interpolated(a, load) ==
    (a.type = "distributed" /\ load.length > 0) => a.mag = SignedIntensity(load, a.pos)

\* C10: the intensity at a station of a distributed load of positive length is
\* q1 + r*(q2 - q1), r = (pos - start)/length, whatever the signs of q1 and q2
C10_SignedInterpolation ==
    \A j \in 1..Len(plots) : \A k \in 1..Len(plots[j].v.stations) :
        plots[j].v.stations[k].type = "distributed"
        => Interpolated(plots[j].v.stations[k],
                        Get(Get(load_cases, plots[j].k), plots[j].v.stations[k].beam)
                          [plots[j].v.stations[k].nr])

----------------------------------------------------------------------------
(* Claims C11-C16.                                                          *)

\* a line that opens another section: it starts with a word other than Balk
OpensSection(line) == Strip(line) /\ line.toks[1].k = "word" /\ line.toks[1].w # "Balk"
\* line j belongs to the cross-section section
InSectorSection(ls, j) ==
    \E h \in 1..(j - 1) : /\ Has(ls[h], "DOORSNEDESECTOREN")
                          /\ \A k \in (h + 1)..j : ~OpensSection(ls[k])
\* the lines of the cross-section section of the form 'Balk n:<sub> <v1> <v2> <length>'
SectorLinesOf(ls, n) ==
    {j \in 1..Len(ls) : /\ InSectorSection(ls, j)
                        /\ ~ls[j].indent /\ Len(ls[j].toks) >= 5
                        /\ ls[j].toks[1] = W("Balk") /\ ls[j].toks[2] = Ref(n, ls[j].toks[2].d)
                        /\ IsDotNum(ls[j].toks[3]) /\ IsDotNum(ls[j].toks[4])
                        /\ DotPrefix(ls[j].toks[5]) # NoTok}
\* the length the section gives beam n: unknown without such a line
SectionField(ls, hits) ==
    IF hits = {} THEN RNone
    ELSE LengthOf(Float(DotPrefix(ls[CHOOSE m \in hits : \A o \in hits : m <= o].toks[5])))
SectionLength(ls, n) == SectionField(ls, SectorLinesOf(ls, n))

\* C11: the length of beam n is the third numeric field of the line
\* 'Balk n:...' of the cross-section section, unknown (0) when that section
\* has no such line; a line of that shape in a later section supplies nothing
C11_LengthFromSectorSection ==
    /\ lookup # NoLookup =>
          get_beam_length(lines, lookup.beam) = SectionLength(lines, lookup.beam)
    /\ \A s \in Samples : SectionLength(lines, s.beam).st = "ok"

\* the data lines the ground-stress pass has accepted so far
Accepted ==
    {i \in 1..Len(lines) : /\ StressRead(i) /\ InFirstStressSection(lines, i)
                           /\ Samplable(lines, stramienlijnen, balken, i)}
BeamOf(i) == lines[i].toks[1].n
PosOf(i) == Float(lines[i].toks[3]).v
StressOf(i) == Float(DotPrefix(lines[i].toks[8])).v
\* the last accepted line with the beam and the position of line i
LastLike(acc, i) ==
    CHOOSE j \in acc : /\ BeamOf(j) = BeamOf(i) /\ PosOf(j) = PosOf(i)
                       /\ \A o \in acc : (BeamOf(o) = BeamOf(i) /\ PosOf(o) = PosOf(i)) => o <= j
KeptFor(acc) ==
    /\ \A i \in acc : \E s \in Samples : /\ s.beam = BeamOf(i) /\ s.position = PosOf(i)
                                         /\ s.stress = StressOf(LastLike(acc, i))
    /\ Len(ground_stress_data) = Cardinality({<<BeamOf(i), PosOf(i)>> : i \in acc})

\* C12: the samples are keyed by (beam, position): one sample for each beam
\* and position among the accepted lines, carrying the stress of the last such
\* line; positions that differ beyond the third decimal do not overwrite each other
C12_KeyedByBeamAndPosition == KeptFor(Accepted)

\* a data line with eight well-formed numeric fields, the last one negative
NegativeStress(line) ==
    /\ Len(line.toks) = 8
    /\ line.toks[1].k = "int" /\ line.toks[2].k = "int"
    /\ line.toks[3].k \in {"int", "dec"}
    /\ \A j \in 4..7 : line.toks[j].k \in {"int", "dec", "neg"}
    /\ line.toks[8].k = "neg"
\* the beam of the line is in range, with registered endpoints and a positive length
GoodBeam(ls, reg, blk, b) ==
    /\ b \in 1..Len(blk) /\ Registered(reg, blk, b)
    /\ get_beam_length(ls, b).st = "ok" /\ get_beam_length(ls, b).x > 0
\* line i is a distributed-load line of beam 1 or higher whose numbers read
SignedQ(ls, i) ==
    /\ QMatch(ls[i]) /\ ls[i].toks[2].n >= 1
    /\ Float(ls[i].toks[5]).ok /\ Float(ls[i].toks[6]).ok
    /\ Float(ls[i].toks[7]).ok /\ Float(DotPrefix(ls[i].toks[8])).ok
SignedP(ls, i) ==
    /\ PMatch(ls[i]) /\ ls[i].toks[2].n >= 1
    /\ Float(ls[i].toks[5]).ok /\ Float(DotPrefix(ls[i].toks[6])).ok

\* C13: signs survive parsing: once the pass has read a well-formed stress
\* line with a negative stress, of a good beam, the sample with that stress is
\* there; a point load keeps a negative force and a distributed load negative
\* q1 and q2
C13_SignsSurvive ==
    /\ \A i \in 1..Len(lines) :
          (/\ StressRead(i) /\ InFirstStressSection(lines, i) /\ NegativeStress(lines[i])
           /\ GoodBeam(lines, stramienlijnen, balken, BeamOf(i))
           /\ \A j \in (i + 1)..Len(lines) : ~StressRead(j))
          => \E s \in Samples : /\ s.beam = BeamOf(i) /\ s.position = PosOf(i)
                                /\ s.stress = Float(lines[i].toks[8]).v
    /\ AfterLoads => \A h, i \in 1..Len(lines) :
          /\ (OpenUnder(lines, h, i) /\ SignedP(lines, i))
             => PointLoad(Float(lines[i].toks[5]).v, Float(DotPrefix(lines[i].toks[6])).v)
                  \in LoadsOf(load_cases, lines[h].toks[2].n, lines[i].toks[2].n)
          /\ (OpenUnder(lines, h, i) /\ SignedQ(lines, i))
             => DistLoad(Float(lines[i].toks[5]).v, Float(lines[i].toks[6]).v,
                         Float(lines[i].toks[7]).v, Float(DotPrefix(lines[i].toks[8])).v)
                  \in LoadsOf(load_cases, lines[h].toks[2].n, lines[i].toks[2].n)

\* the point at `position` along the beam from a to b of length len
PointAlong(a, b, len, position) ==
    <<FAdd(a.x, FMul(FDiv(position, len), FSub(b.x, a.x))),
      FAdd(a.y, FMul(FDiv(position, len), FSub(b.y, a.y)))>>
\* the sample lies on its own beam
OnOwnBeam(ls, reg, blk, s) ==
    /\ s.beam \in 1..Len(blk)
    /\ <<s.x, s.y>> = PointAlong(get_beam_coord(reg, blk[s.beam][1]),
                                 get_beam_coord(reg, blk[s.beam][2]),
                                 get_beam_length(ls, s.beam).x, s.position)

\* C14: every sample names a beam b with 1 <= b <= number of parsed beams and
\* lies between the endpoints of beam b itself; a line naming beam 0 yields no
\* sample and does not borrow the endpoints of the last beam
C14_SamplesOnOwnBeam ==
    \A s \in Samples : OnOwnBeam(lines, stramienlijnen, balken, s)

\* the first line of S, or past the end when S is empty
FirstIn(S, past) == IF S = {} THEN past ELSE CHOOSE m \in S : \A o \in S : m <= o
\* the first STRAMIENLIJNEN line and the first later line containing BALKEN
GridStart(ls) == FirstIn({j \in 1..Len(ls) : Has(ls[j], "STRAMIENLIJNEN")}, Len(ls) + 1)
GridStop(ls, from) == FirstIn({j \in (from + 1)..Len(ls) : Has(ls[j], "BALKEN")}, Len(ls) + 1)
\* the well-formed grid lines between them
GridRowsIn(ls, from, to) ==
    {j \in (from + 1)..(to - 1) :
        /\ ~Has(ls[j], "STRAMIENLIJNEN") /\ GridMatch(ls[j])
        /\ \A f \in 3..5 : Float(ls[j].toks[f]).ok
        /\ Float(DotPrefix(ls[j].toks[6])).ok}
GridRows(ls) == GridRowsIn(ls, GridStart(ls), GridStop(ls, GridStart(ls)))
RowPoints(line) ==
    << <<Float(line.toks[3]).v, Float(line.toks[4]).v>>,
       <<Float(line.toks[5]).v, Float(DotPrefix(line.toks[6])).v>> >>
RegistryOf(reg, ls, rows) ==
    /\ Keys(reg) = {ls[j].toks[2] : j \in rows}
    /\ \A j \in rows : (\A o \in rows : ls[o].toks[2] = ls[j].toks[2] => o <= j)
                       => Get(reg, ls[j].toks[2]) = RowPoints(ls[j])

\* the first BALKEN header and the first later 'BALKEN vervolg' or
\* DOORSNEDESECTOREN line
BeamStart(ls) == FirstIn(BeamHeaders(ls), Len(ls) + 1)
BeamStop(ls, from) ==
    FirstIn({j \in (from + 1)..Len(ls) :
                Has2(ls[j], "BALKEN", "vervolg") \/ Has(ls[j], "DOORSNEDESECTOREN")},
            Len(ls) + 1)
BeamRowsIn(ls, from, to) ==
    {j \in (from + 1)..(to - 1) : j \notin BeamHeaders(ls) /\ Strip(ls[j]) /\ BeamMatch(ls[j])}
BeamRows(ls) == BeamRowsIn(ls, BeamStart(ls), BeamStop(ls, BeamStart(ls)))

\* C15: the registry holds exactly the well-formed lines between the first
\* STRAMIENLIJNEN line and the first later BALKEN line, the beam table exactly
\* those between the BALKEN header and the first later 'BALKEN vervolg' or
\* DOORSNEDESECTOREN line; a stop marker ahead of the start marker neither ends
\* the scan nor empties the result
C15_SectionsFromStartMarker ==
    /\ pc # "stramien" => RegistryOf(stramienlijnen, lines, GridRows(lines))
    /\ pc \notin {"stramien", "balken"} => balken = EndsIn(lines, BeamRows(lines))

\* the lines the load-case pass has read
LoadsRead == IF pc = "loads" THEN idx - 1 ELSE IF AfterLoads THEN Len(lines) ELSE 0
\* the load a load line describes
LoadOfLine(line) ==
    IF QMatch(line)
    THEN DistLoad(Float(line.toks[5]).v, Float(line.toks[6]).v, Float(line.toks[7]).v,
                  Float(DotPrefix(line.toks[8])).v)
    ELSE PointLoad(Float(line.toks[5]).v, Float(DotPrefix(line.toks[6])).v)
\* the load lines read so far whose most recent header is of case bg, with no
\* closing line since, and which name beam b
LinesFor(ls, bg, b, read) ==
    {i \in 1..read : /\ SignedP(ls, i) \/ SignedQ(ls, i)
                     /\ ls[i].toks[2].n = b
                     /\ \E h \in 1..(i - 1) : OpenUnder(ls, h, i) /\ ls[h].toks[2].n = bg}
ListFor(ls, S) == [k \in 1..Cardinality(S) |-> LoadOfLine(ls[InOrder(S, k)])]
Stored(cases, bg, b) == bg \in Keys(cases) /\ b \in Keys(Get(cases, bg))

\* C16: every load is stored under the case of the most recent VELDBELASTINGEN
\* B.G header and the beam of its 'Balk n:' prefix, in the order of the lines,
\* and under no other case or beam
C16_LoadsUnderOpenCaseAndBeam ==
    /\ \A j \in 1..Len(load_cases) : \A m \in 1..Len(load_cases[j].v) :
          load_cases[j].v[m].v
            = ListFor(lines, LinesFor(lines, load_cases[j].k, load_cases[j].v[m].k, LoadsRead))
    /\ \A h, i \in 1..LoadsRead :
          (OpenUnder(lines, h, i) /\ (SignedP(lines, i) \/ SignedQ(lines, i)))
          => Stored(load_cases, lines[h].toks[2].n, lines[i].toks[2].n)

\* two cases each hold a load for beam 1
C16_Witness ==
    /\ AfterLoads
    /\ Cardinality({j \in 1..Len(load_cases) : LoadsOf(load_cases, load_cases[j].k, 1) # {}}) >= 2

====
